---------------------------- MODULE Spec2Model ----------------------------
(***************************************************************************)
(* Model of two parts of the repository:                                   *)
(*                                                                         *)
(*   src/src/tree/codec.rs                                                 *)
(*       the `impl Codec for ...` blocks of the tree structures            *)
(*       (NodeType, Node, PathKeypairs, RatchetTree, UpdatePathNode,       *)
(*       UpdatePath, ASTreeNode).  Only `encode` is implemented there;     *)
(*       every `decode` is commented out.                                  *)
(*   src/openmls/src/group/mls_group/config.rs                             *)
(*       MlsGroupConfig, its builder, and the wire format policies.        *)
(*                                                                         *)
(* The codec primitives the impl blocks call (u8/u16/u32 encode, Option    *)
(* encode, encode_vec, the encode of KeyPackage, ParentNode, public keys,  *)
(* key pairs, ciphertexts and the ciphersuite) are not among the source    *)
(* files; they are modelled from the specification's description of the    *)
(* wire format (sections 4.3 and 6).                                       *)
(***************************************************************************)
EXTENDS Integers, Sequences, FiniteSets, TLC

VARIABLES
    buffer,     \* codec: the Vec<u8> the encode calls write to
    calls,      \* codec: the encode calls made on `buffer`, in call order
    builder,    \* config: <<MlsGroupConfigBuilder.config>>, or <<>> when none
    built,      \* config: <<the MlsGroupConfig build() returned>>, or <<>>
    lastSet,    \* config: per field, the argument of the last setter call
    nSetters,   \* config: number of setter calls made on the builder
    checked,    \* config: <<the last is_compatible_with call, its answer>>
    chosen      \* config: <<the last WireFormat::from(outgoing) call>>

vars == <<buffer, calls, builder, built, lastSet, nSetters, checked, chosen>>

codecVars == <<buffer, calls>>
configVars == <<builder, built, lastSet, nSetters, checked, chosen>>

(***************************************************************************)
(* Bounds of the model.                                                    *)
(***************************************************************************)
\* Longest vector (nodes, key pairs, ciphertexts, update path nodes) drawn
\* as an input.
MaxSeq == 2
\* Most encode calls made on one buffer in the call-sequence specification.
MaxCalls == 3
\* Most setter calls made on one builder.
MaxSetters == 3
\* Largest usize argument given to a setter.
MaxUsize == 2

(***************************************************************************)
(* Result<(), CodecError> of an encode call together with the buffer it    *)
(* leaves behind.  err = "Ok" stands for Ok(()), anything else for         *)
(* Err(CodecError::<err>).                                                 *)
(***************************************************************************)
Ok(buf) == [err |-> "Ok", buf |-> buf]
Err(e, buf) == [err |-> e, buf |-> buf]

RECURSIVE SeqsOfLen(_, _)
SeqsOfLen(S, n) ==
    IF n = 0 THEN {<<>>}
    ELSE {Append(s, x) : s \in SeqsOfLen(S, n - 1), x \in S}

SeqsUpTo(S, n) == UNION {SeqsOfLen(S, k) : k \in 0..n}

Zeros(n) == [i \in 1..n |-> 0]

(***************************************************************************)
(* Codec primitives (not in the source files; from the specification).     *)
(*                                                                         *)
(* Integers are fixed width, in one protocol-wide byte order (network      *)
(* order is used here).                                                    *)
(***************************************************************************)
u8_encode(x, buf) == Ok(Append(buf, x % 256))

u16_encode(x, buf) == Ok(buf \o <<(x \div 256) % 256, x % 256>>)

u32_encode(x, buf) ==
    Ok(buf \o <<(x \div 16777216) % 256, (x \div 65536) % 256,
                (x \div 256) % 256, x % 256>>)

\* VecSize: whether a length n fits the prefix (n <= 2^8 - 1, 2^16 - 1,
\* 2^32 - 1), written so that no number exceeds 32 bits.
VecSize_fits(vec_size, n) ==
    CASE vec_size = "VecU8" -> n < 256
      [] vec_size = "VecU16" -> n \div 256 < 256
      [] vec_size = "VecU32" -> n \div 16777216 < 256

\* T::encode for the element type T of a vector (the trait's static dispatch);
\* defined after the impl blocks below.
RECURSIVE Codec_encode(_, _, _)

\* The elements of a slice, encoded in order from the result r on; stops at
\* the first error.  (The slice is halved rather than walked, which keeps the
\* evaluation of a 255-byte vector shallow; the order of the calls is the
\* slice's.)
RECURSIVE encode_elems(_, _, _)
encode_elems(T, slice, r) ==
    IF slice = <<>> \/ r.err # "Ok" THEN r
    ELSE IF Len(slice) = 1 THEN Codec_encode(T, slice[1], r.buf)
    ELSE LET h == Len(slice) \div 2
         IN  encode_elems(T, SubSeq(slice, h + 1, Len(slice)),
                          encode_elems(T, SubSeq(slice, 1, h), r))

\* encode_vec(vec_size, buffer, slice) for a slice of T: the prefix (the
\* number of elements; for a byte vector that is its byte length), then the
\* elements in order.  A slice too long for the prefix is an encoding error.
encode_vec(vec_size, buf, slice, T) ==
    IF ~VecSize_fits(vec_size, Len(slice)) THEN Err("EncodingError", buf)
    ELSE LET p == CASE vec_size = "VecU8" -> u8_encode(Len(slice), buf)
                    [] vec_size = "VecU16" -> u16_encode(Len(slice), buf)
                    [] vec_size = "VecU32" -> u32_encode(Len(slice), buf)
         IN  encode_elems(T, slice, p)

\* A field whose type is implemented outside the source files (KeyPackage,
\* ParentNode, HPKE public key, key pair, ciphertext): an opaque byte blob
\* with a 2-byte length prefix.  v.enc is the outcome of its encode: "Ok",
\* or the CodecError it returns (it then writes nothing).
Opaque_encode(v, buf) ==
    IF v.enc # "Ok" THEN Err(v.enc, buf)
    ELSE encode_vec("VecU16", buf, v.body, "u8")

\* Option<T>, for an opaque T: a tagged variant, one discriminant byte (0 for
\* None, 1 for Some) followed by the value when there is one.
None == <<>>
Some(v) == <<v>>

Option_encode(opt, buf) ==
    IF opt = None THEN u8_encode(0, buf)
    ELSE LET r == u8_encode(1, buf)
         IN  IF r.err # "Ok" THEN r ELSE Opaque_encode(opt[1], r.buf)

\* The ciphersuite identifier: a 16-bit integer.
Ciphersuite_encode(cs, buf) == u16_encode(cs, buf)

\* `*self as u8` of a NodeType: the discriminant of the variant.
NodeType_as_u8(t) ==
    CASE t = "Leaf" -> 0
      [] t = "Parent" -> 1
      [] t = "Empty" -> 2

(***************************************************************************)
(* src/src/tree/codec.rs: the impl blocks.  `x.encode(buffer)?` returns    *)
(* the callee's error at once and goes on with the buffer otherwise.       *)
(***************************************************************************)
NodeType_encode(self, buf) ==
    LET r1 == u8_encode(NodeType_as_u8(self), buf)
    IN  IF r1.err # "Ok" THEN r1 ELSE Ok(r1.buf)

\* A faulty Node::encode: the discriminant, then the payload of the node's
\* variant only, without the presence bytes of the two optional fields.
Node_encode_variant_only(self, buf) ==
    LET r1 == NodeType_encode(self.node_type, buf)
    IN  IF r1.err # "Ok" THEN r1
        ELSE IF self.node_type = "Leaf" /\ self.key_package # None
             THEN Opaque_encode(self.key_package[1], r1.buf)
        ELSE IF self.node_type = "Parent" /\ self.node # None
             THEN Opaque_encode(self.node[1], r1.buf)
        ELSE Ok(r1.buf)

Node_encode(self, buf) ==
    LET r1 == NodeType_encode(self.node_type, buf)
    IN  IF r1.err # "Ok" THEN r1
        ELSE LET r2 == Option_encode(self.key_package, r1.buf)
             IN  IF r2.err # "Ok" THEN r2
                 ELSE LET r3 == Option_encode(self.node, r2.buf)
                      IN  IF r3.err # "Ok" THEN r3 ELSE Ok(r3.buf)

\* A faulty PathKeypairs::encode: it empties the buffer before it writes.
PathKeypairs_encode_overwriting(self, buf) ==
    LET r1 == encode_vec("VecU32", <<>>, self.keypairs, "Opaque")
    IN  IF r1.err # "Ok" THEN r1 ELSE Ok(r1.buf)

PathKeypairs_encode(self, buf) ==
    LET r1 == encode_vec("VecU32", buf, self.keypairs, "Opaque")
    IN  IF r1.err # "Ok" THEN r1 ELSE Ok(r1.buf)

\* A faulty RatchetTree::encode: the own node index is written before the
\* path key pairs.
RatchetTree_encode_index_first(self, buf) ==
    LET r1 == Ciphersuite_encode(self.ciphersuite, buf)
    IN  IF r1.err # "Ok" THEN r1
        ELSE LET r2 == encode_vec("VecU32", r1.buf, self.nodes, "Node")
             IN  IF r2.err # "Ok" THEN r2
                 ELSE LET r3 == u32_encode(self.own_node_index, r2.buf)
                      IN  IF r3.err # "Ok" THEN r3
                          ELSE LET r4 == PathKeypairs_encode(self.path_keypairs,
                                                            r3.buf)
                               IN  IF r4.err # "Ok" THEN r4 ELSE Ok(r4.buf)

\* A faulty RatchetTree::encode: the result of encoding the nodes is dropped
\* (no `?`), so the fields after them are encoded all the same.
RatchetTree_encode_ignoring_nodes(self, buf) ==
    LET r1 == Ciphersuite_encode(self.ciphersuite, buf)
    IN  IF r1.err # "Ok" THEN r1
        ELSE LET r2 == encode_vec("VecU32", r1.buf, self.nodes, "Node")
                 r3 == PathKeypairs_encode(self.path_keypairs, r2.buf)
             IN  IF r3.err # "Ok" THEN r3
                 ELSE LET r4 == u32_encode(self.own_node_index, r3.buf)
                      IN  IF r4.err # "Ok" THEN r4 ELSE Ok(r4.buf)

RatchetTree_encode(self, buf) ==
    LET r1 == Ciphersuite_encode(self.ciphersuite, buf)
    IN  IF r1.err # "Ok" THEN r1
        ELSE LET r2 == encode_vec("VecU32", r1.buf, self.nodes, "Node")
             IN  IF r2.err # "Ok" THEN r2
                 ELSE LET r3 == PathKeypairs_encode(self.path_keypairs, r2.buf)
                      IN  IF r3.err # "Ok" THEN r3
                          ELSE LET r4 == u32_encode(self.own_node_index, r3.buf)
                               IN  IF r4.err # "Ok" THEN r4 ELSE Ok(r4.buf)

UpdatePathNode_encode(self, buf) ==
    LET r1 == Opaque_encode(self.public_key, buf)
    IN  IF r1.err # "Ok" THEN r1
        ELSE LET r2 == encode_vec("VecU32", r1.buf,
                                  self.encrypted_path_secret, "Opaque")
             IN  IF r2.err # "Ok" THEN r2 ELSE Ok(r2.buf)

\* A faulty UpdatePath::encode: the nodes behind a 4-byte prefix (VecU32).
UpdatePath_encode_u32_prefix(self, buf) ==
    LET r1 == Opaque_encode(self.leaf_key_package, buf)
    IN  IF r1.err # "Ok" THEN r1
        ELSE LET r2 == encode_vec("VecU32", r1.buf, self.nodes,
                                  "UpdatePathNode")
             IN  IF r2.err # "Ok" THEN r2 ELSE Ok(r2.buf)

UpdatePath_encode(self, buf) ==
    LET r1 == Opaque_encode(self.leaf_key_package, buf)
    IN  IF r1.err # "Ok" THEN r1
        ELSE LET r2 == encode_vec("VecU16", r1.buf, self.nodes,
                                  "UpdatePathNode")
             IN  IF r2.err # "Ok" THEN r2 ELSE Ok(r2.buf)

\* A faulty ASTreeNode::encode: the secret behind a 2-byte prefix (VecU16).
ASTreeNode_encode_u16_prefix(self, buf) ==
    LET r1 == encode_vec("VecU16", buf, self.secret, "u8")
    IN  IF r1.err # "Ok" THEN r1 ELSE Ok(r1.buf)

ASTreeNode_encode(self, buf) ==
    LET r1 == encode_vec("VecU8", buf, self.secret, "u8")
    IN  IF r1.err # "Ok" THEN r1 ELSE Ok(r1.buf)

Codec_encode(T, self, buf) ==
    CASE T = "u8" -> u8_encode(self, buf)
      [] T = "Opaque" -> Opaque_encode(self, buf)
      [] T = "NodeType" -> NodeType_encode(self, buf)
      [] T = "Node" -> Node_encode(self, buf)
      [] T = "PathKeypairs" -> PathKeypairs_encode(self, buf)
      [] T = "RatchetTree" -> RatchetTree_encode(self, buf)
      [] T = "UpdatePathNode" -> UpdatePathNode_encode(self, buf)
      [] T = "UpdatePath" -> UpdatePath_encode(self, buf)
      [] T = "ASTreeNode" -> ASTreeNode_encode(self, buf)

\* decode: every `fn decode` of these impl blocks is commented out, so the
\* impl blocks give none of the seven types a decode of its own: a call of
\* T::decode cannot hand back the value that was encoded.
Codec_decode(T, bytes) == [err |-> "Unimplemented", val |-> <<>>]

(***************************************************************************)
(* Inputs of the encode calls.                                             *)
(***************************************************************************)
Blob(body) == [body |-> body, enc |-> "Ok"]
Unencodable(e) == [body |-> <<>>, enc |-> e]

KeyPackages == {Blob(<<11>>), Blob(<<11, 12>>), Unencodable("EncodingError")}
ParentNodes == {Blob(<<21>>), Unencodable("Other")}
PublicKeys == {Blob(<<31>>), Unencodable("EncodingError")}
KeyPairs == {Blob(<<41, 42>>), Unencodable("Other")}
Ciphertexts == {Blob(<<51>>), Blob(<<52, 53>>), Unencodable("EncodingError")}
Ciphersuites == {1, 2}
NodeIndexes == {0, 258}

Options(S) == {None} \cup {Some(v) : v \in S}

NodeTypes == {"Empty", "Leaf", "Parent"}

Nodes ==
    [node_type : NodeTypes, key_package : Options(KeyPackages),
     node : Options(ParentNodes)]

EmptyNode == [node_type |-> "Empty", key_package |-> None, node |-> None]
LeafNode(kp) == [node_type |-> "Leaf", key_package |-> Some(kp), node |-> None]
ParentNode(pn) == [node_type |-> "Parent", key_package |-> None, node |-> Some(pn)]

\* The nodes the trees are drawn over.
TreeNodes ==
    {EmptyNode, LeafNode(Blob(<<11>>)), LeafNode(Unencodable("EncodingError")),
     ParentNode(Blob(<<21>>))}

PathKeypairsValues == [keypairs : SeqsUpTo(KeyPairs, MaxSeq)]

RatchetTrees ==
    [ciphersuite : Ciphersuites, nodes : SeqsUpTo(TreeNodes, MaxSeq),
     path_keypairs : PathKeypairsValues, own_node_index : NodeIndexes]

UpdatePathNodes ==
    [public_key : PublicKeys,
     encrypted_path_secret : SeqsUpTo(Ciphertexts, MaxSeq)]

\* The update path nodes the update paths are drawn over.
PathNodes ==
    {[public_key |-> Blob(<<31>>),
      encrypted_path_secret |-> <<Blob(<<51>>), Blob(<<52, 53>>)>>],
     [public_key |-> Blob(<<31>>), encrypted_path_secret |-> <<Blob(<<52, 53>>)>>],
     [public_key |-> Blob(<<31>>),
      encrypted_path_secret |-> <<Unencodable("EncodingError")>>]}

UpdatePaths ==
    [leaf_key_package : KeyPackages, nodes : SeqsUpTo(PathNodes, MaxSeq)]

ASTreeNodes ==
    [secret : {<<>>, <<1>>, <<1, 2>>, <<2, 1>>, Zeros(255), Zeros(256)}]

\* The few values the call-sequence specification encodes one after another.
FewNodes == {LeafNode(Blob(<<11>>)), LeafNode(Unencodable("EncodingError"))}
FewPathKeypairs == {[keypairs |-> <<Blob(<<41, 42>>)>>]}
FewRatchetTrees ==
    {[ciphersuite |-> 1, nodes |-> <<EmptyNode>>,
      path_keypairs |-> [keypairs |-> <<>>], own_node_index |-> 258],
     [ciphersuite |-> 1, nodes |-> <<EmptyNode>>,
      path_keypairs |-> [keypairs |-> <<Unencodable("Other")>>],
      own_node_index |-> 258]}
FewUpdatePathNodes ==
    {[public_key |-> Blob(<<31>>), encrypted_path_secret |-> <<Blob(<<51>>)>>]}
FewUpdatePaths ==
    {[leaf_key_package |-> Blob(<<11>>), nodes |-> <<>>],
     [leaf_key_package |-> Blob(<<11>>),
      nodes |-> <<[public_key |-> Unencodable("EncodingError"),
                   encrypted_path_secret |-> <<>>]>>]}
FewASTreeNodes == [secret : {<<1, 2>>, Zeros(256)}]

(***************************************************************************)
(* The codec as a state machine: a buffer, and encode calls on it.         *)
(***************************************************************************)
\* The call T::encode(self, &mut buffer) with result r.
Called(T, self, r) ==
    /\ buffer' = r.buf
    /\ calls' = Append(calls, [T |-> T, self |-> self, before |-> buffer,
                               err |-> r.err])
    /\ UNCHANGED configVars

EncodeNodeType(self) == Called("NodeType", self, NodeType_encode(self, buffer))
EncodeNode(self) == Called("Node", self, Node_encode(self, buffer))
EncodePathKeypairs(self) ==
    Called("PathKeypairs", self, PathKeypairs_encode(self, buffer))
EncodeRatchetTree(self) ==
    Called("RatchetTree", self, RatchetTree_encode(self, buffer))
EncodeUpdatePathNode(self) ==
    Called("UpdatePathNode", self, UpdatePathNode_encode(self, buffer))
EncodeUpdatePath(self) ==
    Called("UpdatePath", self, UpdatePath_encode(self, buffer))
EncodeASTreeNode(self) ==
    Called("ASTreeNode", self, ASTreeNode_encode(self, buffer))

\* A new, empty buffer (Vec::new()).
NewBuffer ==
    /\ calls # <<>>
    /\ buffer' = <<>>
    /\ calls' = <<>>
    /\ UNCHANGED configVars

InitCodec ==
    /\ buffer = <<>>
    /\ calls = <<>>
    /\ builder = <<>>
    /\ built = <<>>
    /\ lastSet = <<>>
    /\ nSetters = 0
    /\ checked = <<>>
    /\ chosen = <<>>

\* One encode call on a fresh buffer, over all the inputs.
NextCodec ==
    \/ \E self \in NodeTypes : calls = <<>> /\ EncodeNodeType(self)
    \/ \E self \in Nodes : calls = <<>> /\ EncodeNode(self)
    \/ \E self \in PathKeypairsValues : calls = <<>> /\ EncodePathKeypairs(self)
    \/ \E self \in RatchetTrees : calls = <<>> /\ EncodeRatchetTree(self)
    \/ \E self \in UpdatePathNodes : calls = <<>> /\ EncodeUpdatePathNode(self)
    \/ \E self \in UpdatePaths : calls = <<>> /\ EncodeUpdatePath(self)
    \/ \E self \in ASTreeNodes : calls = <<>> /\ EncodeASTreeNode(self)
    \/ NewBuffer

SpecCodec == InitCodec /\ [][NextCodec]_vars

\* Up to MaxCalls encode calls, one after another, on one buffer.
NextSeq ==
    \/ \E self \in NodeTypes : Len(calls) < MaxCalls /\ EncodeNodeType(self)
    \/ \E self \in FewNodes : Len(calls) < MaxCalls /\ EncodeNode(self)
    \/ \E self \in FewPathKeypairs :
            Len(calls) < MaxCalls /\ EncodePathKeypairs(self)
    \/ \E self \in FewRatchetTrees :
            Len(calls) < MaxCalls /\ EncodeRatchetTree(self)
    \/ \E self \in FewUpdatePathNodes :
            Len(calls) < MaxCalls /\ EncodeUpdatePathNode(self)
    \/ \E self \in FewUpdatePaths :
            Len(calls) < MaxCalls /\ EncodeUpdatePath(self)
    \/ \E self \in FewASTreeNodes :
            Len(calls) < MaxCalls /\ EncodeASTreeNode(self)
    \/ NewBuffer

SpecSeq == InitCodec /\ [][NextSeq]_vars

(***************************************************************************)
(* src/openmls/src/group/mls_group/config.rs: the wire format policies.    *)
(***************************************************************************)
IncomingWireFormatPolicy == {"AlwaysCiphertext", "AlwaysPlaintext", "Mixed"}
OutgoingWireFormatPolicy == {"AlwaysCiphertext", "AlwaysPlaintext"}

\* The two framings of handshake messages the policies speak of.
WireFormat == {"PrivateMessage", "PublicMessage"}

\* A faulty is_compatible_with: Mixed accepts PrivateMessage only.
is_compatible_with_strict_mixed(self, wire_format) ==
    CASE self = "AlwaysCiphertext" -> wire_format = "PrivateMessage"
      [] self = "AlwaysPlaintext" -> wire_format = "PublicMessage"
      [] self = "Mixed" -> wire_format = "PrivateMessage"

is_compatible_with(self, wire_format) ==
    CASE self = "AlwaysCiphertext" -> wire_format = "PrivateMessage"
      [] self = "AlwaysPlaintext" -> wire_format = "PublicMessage"
      [] self = "Mixed" ->
            wire_format = "PrivateMessage" \/ wire_format = "PublicMessage"

WireFormatPolicy_new(outgoing, incoming) ==
    [outgoing |-> outgoing, incoming |-> incoming]

WireFormatPolicy_outgoing(self) == self.outgoing
WireFormatPolicy_incoming(self) == self.incoming

WireFormat_from(outgoing) ==
    CASE outgoing = "AlwaysCiphertext" -> "PrivateMessage"
      [] outgoing = "AlwaysPlaintext" -> "PublicMessage"

PURE_PLAINTEXT_WIRE_FORMAT_POLICY ==
    [outgoing |-> "AlwaysPlaintext", incoming |-> "AlwaysPlaintext"]

PURE_CIPHERTEXT_WIRE_FORMAT_POLICY ==
    [outgoing |-> "AlwaysCiphertext", incoming |-> "AlwaysCiphertext"]

MIXED_PLAINTEXT_WIRE_FORMAT_POLICY ==
    [outgoing |-> "AlwaysPlaintext", incoming |-> "Mixed"]

MIXED_CIPHERTEXT_WIRE_FORMAT_POLICY ==
    [outgoing |-> "AlwaysCiphertext", incoming |-> "Mixed"]

\* A faulty list: the mixed plaintext policy twice, the mixed ciphertext
\* policy missing.
WIRE_FORMAT_POLICIES_repeated ==
    <<PURE_PLAINTEXT_WIRE_FORMAT_POLICY, PURE_CIPHERTEXT_WIRE_FORMAT_POLICY,
      MIXED_PLAINTEXT_WIRE_FORMAT_POLICY, MIXED_PLAINTEXT_WIRE_FORMAT_POLICY>>

WIRE_FORMAT_POLICIES ==
    <<PURE_PLAINTEXT_WIRE_FORMAT_POLICY, PURE_CIPHERTEXT_WIRE_FORMAT_POLICY,
      MIXED_PLAINTEXT_WIRE_FORMAT_POLICY, MIXED_CIPHERTEXT_WIRE_FORMAT_POLICY>>

WireFormatPolicy_default == PURE_CIPHERTEXT_WIRE_FORMAT_POLICY

(***************************************************************************)
(* config.rs: MlsGroupConfig and its builder.  A value of a type declared  *)
(* outside the source files (the extensions, SenderRatchetConfiguration,   *)
(* Lifetime, CryptoConfig) is a tuple naming how it was made; <<"default">>*)
(* is that type's Default::default().                                      *)
(***************************************************************************)
Fields ==
    {"wire_format_policy", "padding_size", "max_past_epochs",
     "number_of_resumption_psks", "use_ratchet_tree_extension",
     "required_capabilities", "external_senders",
     "sender_ratchet_configuration", "lifetime", "crypto_config"}

\* #[derive(Default)]: every field's Default::default().
MlsGroupConfig_default ==
    [wire_format_policy |-> WireFormatPolicy_default,
     padding_size |-> 0,
     max_past_epochs |-> 0,
     number_of_resumption_psks |-> 0,
     use_ratchet_tree_extension |-> FALSE,
     required_capabilities |-> <<"default">>,
     external_senders |-> <<"default">>,
     sender_ratchet_configuration |-> <<"default">>,
     lifetime |-> <<"default">>,
     crypto_config |-> <<"default">>]

MlsGroupConfig_wire_format_policy(self) == self.wire_format_policy
MlsGroupConfig_padding_size(self) == self.padding_size
MlsGroupConfig_max_past_epochs(self) == self.max_past_epochs
MlsGroupConfig_number_of_resumption_psks(self) == self.number_of_resumption_psks
MlsGroupConfig_use_ratchet_tree_extension(self) == self.use_ratchet_tree_extension
MlsGroupConfig_required_capabilities(self) == self.required_capabilities
MlsGroupConfig_sender_ratchet_configuration(self) ==
    self.sender_ratchet_configuration
MlsGroupConfig_external_senders(self) == self.external_senders
MlsGroupConfig_lifetime(self) == self.lifetime
MlsGroupConfig_crypto_config(self) == self.crypto_config

\* The builder is its one field, `config`.
MlsGroupConfigBuilder_new == MlsGroupConfig_default
MlsGroupConfig_builder == MlsGroupConfigBuilder_new

MlsGroupConfigBuilder_wire_format_policy(self, wire_format_policy) ==
    [self EXCEPT !.wire_format_policy = wire_format_policy]
MlsGroupConfigBuilder_padding_size(self, padding_size) ==
    [self EXCEPT !.padding_size = padding_size]
\* A faulty max_past_epochs setter: it assigns padding_size.
MlsGroupConfigBuilder_max_past_epochs_sets_padding(self, max_past_epochs) ==
    [self EXCEPT !.padding_size = max_past_epochs]
MlsGroupConfigBuilder_max_past_epochs(self, max_past_epochs) ==
    [self EXCEPT !.max_past_epochs = max_past_epochs]
MlsGroupConfigBuilder_number_of_resumption_psks(self, number_of_resumption_psks) ==
    [self EXCEPT !.number_of_resumption_psks = number_of_resumption_psks]
MlsGroupConfigBuilder_use_ratchet_tree_extension(self, use_ratchet_tree_extension) ==
    [self EXCEPT !.use_ratchet_tree_extension = use_ratchet_tree_extension]
MlsGroupConfigBuilder_required_capabilities(self, required_capabilities) ==
    [self EXCEPT !.required_capabilities = required_capabilities]
MlsGroupConfigBuilder_sender_ratchet_configuration(self, sender_ratchet_configuration) ==
    [self EXCEPT !.sender_ratchet_configuration = sender_ratchet_configuration]
MlsGroupConfigBuilder_lifetime(self, lifetime) ==
    [self EXCEPT !.lifetime = lifetime]
MlsGroupConfigBuilder_crypto_config(self, config) ==
    [self EXCEPT !.crypto_config = config]
MlsGroupConfigBuilder_external_senders(self, external_senders) ==
    [self EXCEPT !.external_senders = external_senders]

MlsGroupConfigBuilder_build(self) == self

\* CryptoConfig::with_default_version(ciphersuite), declared outside the
\* source files.
CryptoConfig_with_default_version(ciphersuite) ==
    <<"with_default_version", ciphersuite>>

MlsGroupConfig_test_default(ciphersuite) ==
    MlsGroupConfigBuilder_build(
        MlsGroupConfigBuilder_crypto_config(
            MlsGroupConfigBuilder_wire_format_policy(
                MlsGroupConfig_builder,
                WireFormatPolicy_new("AlwaysPlaintext", "Mixed")),
            CryptoConfig_with_default_version(ciphersuite)))

(***************************************************************************)
(* Inputs of the setters.                                                  *)
(***************************************************************************)
WireFormatPolicies ==
    {WireFormatPolicy_new(o, i) :
        o \in OutgoingWireFormatPolicy, i \in IncomingWireFormatPolicy}
Usizes == 0..MaxUsize
OtherValues == {<<"default">>, <<"custom", 1>>}
CryptoConfigs ==
    {<<"default">>} \cup {CryptoConfig_with_default_version(c) : c \in Ciphersuites}

(***************************************************************************)
(* The configuration as a state machine: builder(), setter calls, build(), *)
(* and the two uses of the built config's wire format policy.              *)
(***************************************************************************)
NothingSet == [f \in Fields |-> <<>>]

Builder ==
    /\ builder' = <<MlsGroupConfig_builder>>
    /\ built' = <<>>
    /\ lastSet' = NothingSet
    /\ nSetters' = 0
    /\ checked' = <<>>
    /\ chosen' = <<>>
    /\ UNCHANGED codecVars

\* A setter call with argument v on the builder, giving the builder `next`.
Set(f, v, next) ==
    /\ builder # <<>>
    /\ nSetters < MaxSetters
    /\ builder' = <<next>>
    /\ lastSet' = [lastSet EXCEPT ![f] = <<v>>]
    /\ nSetters' = nSetters + 1
    /\ UNCHANGED <<built, checked, chosen, codecVars>>

SetWireFormatPolicy(v) ==
    Set("wire_format_policy", v,
        MlsGroupConfigBuilder_wire_format_policy(builder[1], v))
SetPaddingSize(v) ==
    Set("padding_size", v, MlsGroupConfigBuilder_padding_size(builder[1], v))
SetMaxPastEpochs(v) ==
    Set("max_past_epochs", v,
        MlsGroupConfigBuilder_max_past_epochs(builder[1], v))
SetNumberOfResumptionPsks(v) ==
    Set("number_of_resumption_psks", v,
        MlsGroupConfigBuilder_number_of_resumption_psks(builder[1], v))
SetUseRatchetTreeExtension(v) ==
    Set("use_ratchet_tree_extension", v,
        MlsGroupConfigBuilder_use_ratchet_tree_extension(builder[1], v))
SetRequiredCapabilities(v) ==
    Set("required_capabilities", v,
        MlsGroupConfigBuilder_required_capabilities(builder[1], v))
SetSenderRatchetConfiguration(v) ==
    Set("sender_ratchet_configuration", v,
        MlsGroupConfigBuilder_sender_ratchet_configuration(builder[1], v))
SetLifetime(v) ==
    Set("lifetime", v, MlsGroupConfigBuilder_lifetime(builder[1], v))
SetCryptoConfig(v) ==
    Set("crypto_config", v, MlsGroupConfigBuilder_crypto_config(builder[1], v))
SetExternalSenders(v) ==
    Set("external_senders", v,
        MlsGroupConfigBuilder_external_senders(builder[1], v))

Build ==
    /\ builder # <<>>
    /\ built' = <<MlsGroupConfigBuilder_build(builder[1])>>
    /\ builder' = <<>>
    /\ UNCHANGED <<lastSet, nSetters, checked, chosen, codecVars>>

TestDefault(ciphersuite) ==
    /\ built' = <<MlsGroupConfig_test_default(ciphersuite)>>
    /\ builder' = <<>>
    /\ lastSet' =
          [NothingSet EXCEPT
             !["wire_format_policy"] =
                 <<WireFormatPolicy_new("AlwaysPlaintext", "Mixed")>>,
             !["crypto_config"] =
                 <<CryptoConfig_with_default_version(ciphersuite)>>]
    /\ nSetters' = 2
    /\ checked' = <<>>
    /\ chosen' = <<>>
    /\ UNCHANGED codecVars

\* An incoming handshake message of framing wire_format is checked against
\* the config's policy.
CheckIncoming(wire_format) ==
    /\ built # <<>>
    /\ LET policy == MlsGroupConfig_wire_format_policy(built[1])
       IN  checked' =
             <<[policy |-> policy, wire_format |-> wire_format,
                ok |-> is_compatible_with(WireFormatPolicy_incoming(policy),
                                          wire_format)]>>
    /\ UNCHANGED <<builder, built, lastSet, nSetters, chosen, codecVars>>

\* The framing of an outgoing handshake message is taken from the config's
\* policy.
ChooseOutgoing ==
    /\ built # <<>>
    /\ LET policy == MlsGroupConfig_wire_format_policy(built[1])
       IN  chosen' =
             <<[policy |-> policy,
                wire_format |-> WireFormat_from(WireFormatPolicy_outgoing(policy))]>>
    /\ UNCHANGED <<builder, built, lastSet, nSetters, checked, codecVars>>

InitConfig ==
    /\ buffer = <<>>
    /\ calls = <<>>
    /\ builder = <<>>
    /\ built = <<>>
    /\ lastSet = NothingSet
    /\ nSetters = 0
    /\ checked = <<>>
    /\ chosen = <<>>

NextConfig ==
    \/ Builder
    \/ \E v \in WireFormatPolicies : SetWireFormatPolicy(v)
    \/ \E v \in Usizes : SetPaddingSize(v)
    \/ \E v \in Usizes : SetMaxPastEpochs(v)
    \/ \E v \in Usizes : SetNumberOfResumptionPsks(v)
    \/ \E v \in BOOLEAN : SetUseRatchetTreeExtension(v)
    \/ \E v \in OtherValues : SetRequiredCapabilities(v)
    \/ \E v \in OtherValues : SetSenderRatchetConfiguration(v)
    \/ \E v \in OtherValues : SetLifetime(v)
    \/ \E v \in CryptoConfigs : SetCryptoConfig(v)
    \/ \E v \in OtherValues : SetExternalSenders(v)
    \/ Build
    \/ \E c \in Ciphersuites : TestDefault(c)
    \/ \E wf \in WireFormat : CheckIncoming(wf)
    \/ ChooseOutgoing

SpecConfig == InitConfig /\ [][NextConfig]_vars

(***************************************************************************)
(* What the claims are stated with.                                        *)
(***************************************************************************)
\* The buffer right after call i.
After(i) == IF i = Len(calls) THEN buffer ELSE calls[i + 1].before

IsPrefix(a, b) == Len(a) <= Len(b) /\ SubSeq(b, 1, Len(a)) = a

\* The bytes call i added at the end of the buffer.
Appended(i) == SubSeq(After(i), Len(calls[i].before) + 1, Len(After(i)))

\* n as w bytes, most significant first.
RECURSIVE Pow256(_)
Pow256(k) == IF k = 0 THEN 1 ELSE 256 * Pow256(k - 1)
BE(w, n) == [i \in 1..w |-> (n \div Pow256(w - i)) % 256]

RECURSIVE Flatten(_)
Flatten(ss) == IF ss = <<>> THEN <<>> ELSE Head(ss) \o Flatten(Tail(ss))

\* A w-byte prefix stating the number of elements, then the elements.
Wire_Seq(w, ss) == BE(w, Len(ss)) \o Flatten(ss)

\* The wire form of the values whose encoders lie outside the source files.
Wire_Bytes(w, bytes) == BE(w, Len(bytes)) \o bytes
Wire_Blob(v) == Wire_Bytes(2, v.body)
Wire_Option(opt) == IF opt = None THEN <<0>> ELSE <<1>> \o Wire_Blob(opt[1])
Wire_Blobs(vs) == [i \in 1..Len(vs) |-> Wire_Blob(vs[i])]

Wire_Node(n) ==
    <<NodeType_as_u8(n.node_type)>> \o Wire_Option(n.key_package)
        \o Wire_Option(n.node)

\* A node whose fields agree with its type.
WellFormed(n) ==
    CASE n.node_type = "Empty" -> n.key_package = None /\ n.node = None
      [] n.node_type = "Leaf" -> n.key_package # None /\ n.node = None
      [] n.node_type = "Parent" -> n.key_package = None /\ n.node # None

\* The payload of the one variant a well-formed node is.
Wire_VariantPayload(n) ==
    CASE n.node_type = "Empty" -> <<>>
      [] n.node_type = "Leaf" -> Wire_Blob(n.key_package[1])
      [] n.node_type = "Parent" -> Wire_Blob(n.node[1])

\* An update path node with a w-byte prefix on its ciphertexts.
Wire_UpdatePathNode(n, w) ==
    Wire_Blob(n.public_key) \o Wire_Seq(w, Wire_Blobs(n.encrypted_path_secret))

\* An update path with a w-byte prefix on its nodes, and a v-byte prefix on
\* the ciphertexts of each node.
Wire_UpdatePath(p, w, v) ==
    Wire_Blob(p.leaf_key_package)
        \o Wire_Seq(w, [i \in 1..Len(p.nodes) |->
                            Wire_UpdatePathNode(p.nodes[i], v)])

\* A ratchet tree with a w-byte prefix on its nodes.
Wire_RatchetTree(t, w) ==
    BE(2, t.ciphersuite)
        \o Wire_Seq(w, [i \in 1..Len(t.nodes) |-> Wire_Node(t.nodes[i])])
        \o Wire_Seq(4, Wire_Blobs(t.path_keypairs.keypairs))
        \o BE(4, t.own_node_index)

\* The calls of type T that returned Ok.
OkCalls(T) ==
    {i \in 1..Len(calls) : calls[i].T = T /\ calls[i].err = "Ok"}

\* The fields of a composite value, each encoded on its own into an empty
\* buffer, in the order the composite's encode names them.
FieldResults(T, self) ==
    CASE T = "NodeType" -> <<u8_encode(NodeType_as_u8(self), <<>>)>>
      [] T = "Node" ->
            <<NodeType_encode(self.node_type, <<>>),
              Option_encode(self.key_package, <<>>),
              Option_encode(self.node, <<>>)>>
      [] T = "PathKeypairs" ->
            <<encode_vec("VecU32", <<>>, self.keypairs, "Opaque")>>
      [] T = "RatchetTree" ->
            <<Ciphersuite_encode(self.ciphersuite, <<>>),
              encode_vec("VecU32", <<>>, self.nodes, "Node"),
              PathKeypairs_encode(self.path_keypairs, <<>>),
              u32_encode(self.own_node_index, <<>>)>>
      [] T = "UpdatePathNode" ->
            <<Opaque_encode(self.public_key, <<>>),
              encode_vec("VecU32", <<>>, self.encrypted_path_secret, "Opaque")>>
      [] T = "UpdatePath" ->
            <<Opaque_encode(self.leaf_key_package, <<>>),
              encode_vec("VecU16", <<>>, self.nodes, "UpdatePathNode")>>
      [] T = "ASTreeNode" ->
            <<encode_vec("VecU8", <<>>, self.secret, "u8")>>

\* The fields that are reached: all of them, or those up to and including
\* the first one whose encoding fails.
Reached(frs) ==
    LET bad == {k \in 1..Len(frs) : frs[k].err # "Ok"}
    IN  IF bad = {} THEN frs
        ELSE SubSeq(frs, 1, CHOOSE k \in bad : \A j \in bad : k <= j)

(***************************************************************************)
(* The claims.                                                             *)
(***************************************************************************)
Listed == {WIRE_FORMAT_POLICIES[i] : i \in 1..Len(WIRE_FORMAT_POLICIES)}

\* C1: under MIXED_CIPHERTEXT_WIRE_FORMAT_POLICY (outgoing AlwaysCiphertext,
\* incoming Mixed) an incoming message of either framing, PrivateMessage or
\* PublicMessage, is accepted, and the framing chosen for output is always
\* PrivateMessage, never PublicMessage.
C1_MixedCiphertext ==
    /\ checked # <<>> /\ checked[1].policy = MIXED_CIPHERTEXT_WIRE_FORMAT_POLICY
          => checked[1].ok
    /\ chosen # <<>> /\ chosen[1].policy = MIXED_CIPHERTEXT_WIRE_FORMAT_POLICY
          => /\ chosen[1].wire_format = "PrivateMessage"
             /\ chosen[1].wire_format # "PublicMessage"

\* A config built with the mixed ciphertext policy has accepted an incoming
\* PublicMessage and has chosen its outgoing framing.
C1_Witness ==
    /\ checked # <<>>
    /\ checked[1].policy = MIXED_CIPHERTEXT_WIRE_FORMAT_POLICY
    /\ checked[1].wire_format = "PublicMessage"
    /\ checked[1].ok
    /\ chosen # <<>>
    /\ chosen[1].policy = MIXED_CIPHERTEXT_WIRE_FORMAT_POLICY

\* C2 (as claimed): for every call that returned Ok, decoding the bytes it
\* appended gives the encoded value back, and no other value of the type
\* encodes to the same bytes.
Values(T) ==
    CASE T = "NodeType" -> NodeTypes
      [] T = "Node" -> Nodes
      [] T = "PathKeypairs" -> PathKeypairsValues
      [] T = "RatchetTree" -> RatchetTrees
      [] T = "UpdatePathNode" -> UpdatePathNodes
      [] T = "UpdatePath" -> UpdatePaths
      [] T = "ASTreeNode" -> ASTreeNodes

\* No other value of the type encodes to the bytes an Ok call appended.
EncodeInjective ==
    \A i \in 1..Len(calls) :
        calls[i].err = "Ok" =>
            \A other \in Values(calls[i].T) :
                LET r == Codec_encode(calls[i].T, other, <<>>)
                IN  r.err = "Ok" /\ r.buf = Appended(i) => other = calls[i].self

C2_RoundTrip ==
    /\ \A i \in 1..Len(calls) :
          calls[i].err = "Ok" =>
              LET d == Codec_decode(calls[i].T, Appended(i))
              IN  d.err = "Ok" /\ d.val = <<calls[i].self>>
    /\ EncodeInjective

\* C3: an UpdatePath is written as its leaf key package, then its nodes
\* behind a 2-byte prefix, in order; an UpdatePathNode as its public key,
\* then its ciphertexts behind a 4-byte prefix, in order.
C3_UpdatePathLayout ==
    /\ \A i \in OkCalls("UpdatePath") :
          Appended(i) = Wire_UpdatePath(calls[i].self, 2, 4)
    /\ \A i \in OkCalls("UpdatePathNode") :
          Appended(i) = Wire_UpdatePathNode(calls[i].self, 4)

\* An update path of two different nodes, the first with two ciphertexts,
\* has been encoded.
C3_Witness ==
    \E i \in OkCalls("UpdatePath") :
        /\ Len(calls[i].self.nodes) = 2
        /\ calls[i].self.nodes[1] # calls[i].self.nodes[2]
        /\ Len(calls[i].self.nodes[1].encrypted_path_secret) = 2

\* C4: a RatchetTree is written as exactly the ciphersuite id, the nodes
\* behind a 4-byte prefix, the path key pairs behind a 4-byte prefix, and the
\* own node index as a plain u32, in this order and nothing else.
C4_RatchetTreeLayout ==
    /\ \A i \in OkCalls("RatchetTree") :
          Appended(i) = Wire_RatchetTree(calls[i].self, 4)
    /\ \A i \in OkCalls("PathKeypairs") :
          Appended(i) = Wire_Seq(4, Wire_Blobs(calls[i].self.keypairs))

\* A tree of two nodes, with a path key pair and own node index 258, has
\* been encoded.
C4_Witness ==
    \E i \in OkCalls("RatchetTree") :
        /\ Len(calls[i].self.nodes) = 2
        /\ Len(calls[i].self.path_keypairs.keypairs) >= 1
        /\ calls[i].self.own_node_index = 258

\* C5 (as claimed): a well-formed Node is written as its one-byte
\* discriminant followed by the payload of its variant only: nothing for
\* Empty, the key package for Leaf, the parent node for Parent.
C5_VariantPayloadOnly ==
    \A i \in OkCalls("Node") :
        WellFormed(calls[i].self) =>
            Appended(i) = <<NodeType_as_u8(calls[i].self.node_type)>>
                              \o Wire_VariantPayload(calls[i].self)

\* C5 (amended): a Node is written as its one-byte discriminant followed by
\* both of its optional fields, the key package and then the parent node,
\* each as a presence byte and, when present, the value: whatever the node
\* type.  A NodeType is written as its one-byte discriminant.
C5_NodeFields ==
    /\ \A i \in OkCalls("Node") : Appended(i) = Wire_Node(calls[i].self)
    /\ \A i \in OkCalls("NodeType") :
          Appended(i) = <<NodeType_as_u8(calls[i].self)>>

\* An Empty node and nothing else has been encoded: three bytes.
C5_Witness ==
    \E i \in OkCalls("Node") :
        /\ calls[i].self = EmptyNode
        /\ Len(Appended(i)) = 3

\* C6 (as claimed): the nodes of a RatchetTree and the nodes of an
\* UpdatePath are each behind a 4-byte prefix, the secret of an ASTreeNode
\* behind a 1-byte prefix.
C6_FourBytePrefixes ==
    /\ \A i \in OkCalls("RatchetTree") :
          Appended(i) = Wire_RatchetTree(calls[i].self, 4)
    /\ \A i \in OkCalls("UpdatePath") :
          Appended(i) = Wire_UpdatePath(calls[i].self, 4, 4)
    /\ \A i \in OkCalls("ASTreeNode") :
          Appended(i) = Wire_Bytes(1, calls[i].self.secret)

\* C6 (amended): the nodes of a RatchetTree are behind a 4-byte prefix, the
\* nodes of an UpdatePath behind a 2-byte prefix (the 4-byte prefix of an
\* update path is the one on each node's ciphertexts), the secret of an
\* ASTreeNode behind a 1-byte prefix.
C6_PrefixWidths ==
    /\ \A i \in OkCalls("RatchetTree") :
          Appended(i) = Wire_RatchetTree(calls[i].self, 4)
    /\ \A i \in OkCalls("UpdatePath") :
          Appended(i) = Wire_UpdatePath(calls[i].self, 2, 4)
    /\ \A i \in OkCalls("ASTreeNode") :
          Appended(i) = Wire_Bytes(1, calls[i].self.secret)

\* An update path with a node has been encoded.
C6_Witness ==
    \E i \in OkCalls("UpdatePath") :
        /\ Len(calls[i].self.nodes) >= 1
        /\ Len(calls[i].self.nodes[1].encrypted_path_secret) >= 1

\* The default a field holds when no setter was called for it.
DefaultOf(f) ==
    CASE f = "wire_format_policy" -> PURE_CIPHERTEXT_WIRE_FORMAT_POLICY
      [] f \in {"padding_size", "max_past_epochs",
                "number_of_resumption_psks"} -> 0
      [] f = "use_ratchet_tree_extension" -> FALSE
      [] OTHER -> <<"default">>

\* The last value set for a field, or its default.
Expected(f) == IF lastSet[f] = <<>> THEN DefaultOf(f) ELSE lastSet[f][1]

\* The getter of a field.
Getter(f, cfg) ==
    CASE f = "wire_format_policy" -> MlsGroupConfig_wire_format_policy(cfg)
      [] f = "padding_size" -> MlsGroupConfig_padding_size(cfg)
      [] f = "max_past_epochs" -> MlsGroupConfig_max_past_epochs(cfg)
      [] f = "number_of_resumption_psks" ->
            MlsGroupConfig_number_of_resumption_psks(cfg)
      [] f = "use_ratchet_tree_extension" ->
            MlsGroupConfig_use_ratchet_tree_extension(cfg)
      [] f = "required_capabilities" -> MlsGroupConfig_required_capabilities(cfg)
      [] f = "sender_ratchet_configuration" ->
            MlsGroupConfig_sender_ratchet_configuration(cfg)
      [] f = "external_senders" -> MlsGroupConfig_external_senders(cfg)
      [] f = "lifetime" -> MlsGroupConfig_lifetime(cfg)
      [] f = "crypto_config" -> MlsGroupConfig_crypto_config(cfg)

\* C7: after any sequence of setter calls from builder(), every field of
\* the builder's config, and of the config build() returns as its getter
\* reads it, is the argument of the last setter call for that field, or the
\* field's default when no setter was called for it (wire_format_policy:
\* PURE_CIPHERTEXT_WIRE_FORMAT_POLICY, max_past_epochs: 0).  So a setter
\* changes its own field and no other.
C7_BuilderFields ==
    /\ builder # <<>> => \A f \in Fields : builder[1][f] = Expected(f)
    /\ built # <<>> => \A f \in Fields : Getter(f, built[1]) = Expected(f)

\* A config was built after three setter calls on two fields, so that one
\* of the two was set twice, the other eight never.
C7_Witness ==
    /\ built # <<>>
    /\ nSetters = 3
    /\ lastSet["max_past_epochs"] = <<2>>
    /\ lastSet["wire_format_policy"] = <<MIXED_CIPHERTEXT_WIRE_FORMAT_POLICY>>
    /\ \A f \in Fields \ {"max_past_epochs", "wire_format_policy"} :
          lastSet[f] = <<>>

\* C8: WIRE_FORMAT_POLICIES holds four different policies, which are
\* exactly the pairs (outgoing, incoming) whose incoming policy accepts the
\* framing of their own outgoing policy; the two other pairs,
\* (AlwaysCiphertext, AlwaysPlaintext) and (AlwaysPlaintext,
\* AlwaysCiphertext), reject it.  The default policy and the policy of
\* test_default are in the list.
C8_ValidPolicies ==
    /\ Len(WIRE_FORMAT_POLICIES) = 4
    /\ Cardinality(Listed) = 4
    /\ \A p \in WireFormatPolicies :
          p \in Listed <=>
              is_compatible_with(WireFormatPolicy_incoming(p),
                                 WireFormat_from(WireFormatPolicy_outgoing(p)))
    /\ WireFormatPolicies \ Listed =
          {WireFormatPolicy_new("AlwaysCiphertext", "AlwaysPlaintext"),
           WireFormatPolicy_new("AlwaysPlaintext", "AlwaysCiphertext")}
    /\ WireFormatPolicy_default \in Listed
    /\ \A c \in Ciphersuites :
          MlsGroupConfig_wire_format_policy(MlsGroupConfig_test_default(c))
              \in Listed
    /\ checked # <<>> /\ chosen # <<>>
            /\ checked[1].wire_format = chosen[1].wire_format
          => (checked[1].ok <=> checked[1].policy \in Listed)

\* A config with the unlisted policy (AlwaysCiphertext, AlwaysPlaintext)
\* chose its outgoing framing and rejected that framing on input.
C8_Witness ==
    /\ checked # <<>>
    /\ chosen # <<>>
    /\ checked[1].policy =
          WireFormatPolicy_new("AlwaysCiphertext", "AlwaysPlaintext")
    /\ checked[1].wire_format = chosen[1].wire_format
    /\ ~checked[1].ok

\* C9: each encode call leaves the bytes that were in the buffer in place
\* and adds bytes at its end only; the bytes it adds are those the same call
\* writes to an empty buffer, whatever the buffer held; so the buffer is the
\* encodings in call order, and the same value encoded again adds the same
\* bytes and returns the same result.
C9_AppendOnly ==
    /\ \A i \in 1..Len(calls) :
          /\ IsPrefix(calls[i].before, After(i))
          /\ Appended(i) = Codec_encode(calls[i].T, calls[i].self, <<>>).buf
    /\ buffer = Flatten([i \in 1..Len(calls) |->
                            Codec_encode(calls[i].T, calls[i].self, <<>>).buf])
    /\ \A i, j \in 1..Len(calls) :
          calls[i].T = calls[j].T /\ calls[i].self = calls[j].self
              => Appended(i) = Appended(j) /\ calls[i].err = calls[j].err

\* A node, then a secret, then the same node again have been encoded into
\* one buffer.
C9_Witness ==
    /\ Len(calls) = 3
    /\ calls[1].T = "Node" /\ calls[1].err = "Ok"
    /\ calls[2].T = "ASTreeNode" /\ calls[2].err = "Ok"
    /\ calls[3].T = "Node" /\ calls[3].self = calls[1].self
    /\ Appended(3) # <<>>

\* C10: an encode call returns the error of the first of its fields whose
\* encoding fails and writes nothing of the fields after it; it returns Ok
\* exactly when the encoding of every field succeeded, and has then written
\* them all.
C10_ErrorPropagation ==
    \A i \in 1..Len(calls) :
        LET frs == FieldResults(calls[i].T, calls[i].self)
            reached == Reached(frs)
        IN  /\ calls[i].err = reached[Len(reached)].err
            /\ Appended(i) = Flatten([k \in 1..Len(reached) |-> reached[k].buf])
            /\ calls[i].err = "Ok" <=> \A k \in 1..Len(frs) : frs[k].err = "Ok"

\* A tree whose nodes fail to encode with one error and whose path key
\* pairs would fail with another has been encoded.
C10_Witness ==
    \E i \in 1..Len(calls) :
        /\ calls[i].T = "RatchetTree"
        /\ calls[i].err = "EncodingError"
        /\ FieldResults("RatchetTree", calls[i].self)[2].err = "EncodingError"
        /\ FieldResults("RatchetTree", calls[i].self)[3].err = "Other"

=============================================================================
